---------------------------- MODULE Spec2Model ----------------------------
(***************************************************************************)
(* Model of the Robotat telemetry bridge:                                  *)
(*   mqtt_bridge/mqtt_client.py  broker client (paho-mqtt callbacks,        *)
(*                               publish_command, start_mqtt_client)       *)
(*   mqtt_bridge/consumers.py    MqttConsumer (Django Channels consumer)   *)
(*   interfaz/views.py           enviar_comando (command submission API)   *)
(* Python values, JSON text, MQTT topics and the channel layer are         *)
(* modelled by what the code does with them.                               *)
(***************************************************************************)
EXTENDS Integers, Sequences, FiniteSets, TLC

(***************************************************************************)
(* Bounds of the model.                                                    *)
(***************************************************************************)
\* calls of start_mqtt_client (AppConfig.ready may run more than once)
MaxStarts == 2
\* calls of publish_command, direct or through enviar_comando
MaxCmds == 1
\* broker messages handed to on_message
MaxMsgs == 2
\* text frames the viewers send to their consumers
MaxReqs == 1
\* capacity of one channel of the channel layer (the library's default is 100)
ChannelCapacity == 2
\* connection losses, of all broker clients together
MaxLosses == 1
\* runs of the disconnect handler of one session
MaxLeaves == 2
\* the codes tried for src, ptp and pid are -3..MaxCode, and 9999
MaxCode == 103
\* the longest cks tried (a SHA-256 digest has 64 hexadecimal digits)
MaxCks == 64
\* rigid bodies the motion capture reports to the producer
MaxBodies == 2

(***************************************************************************)
(* Program constants (mqtt_client.py lines 42-51).                         *)
(* A topic is the sequence of its levels: "mocap/#" is <<"mocap", "#">>.   *)
(***************************************************************************)
TOPIC == <<"mocap", "#">>
QOS == 0
COMMAND_TOPIC == <<"pololu01", "cmd">>
TELEMETRY_TOPIC == <<"pololu01", "tel">>

(***************************************************************************)
(* Python values.  int, bool, float, str (the sequence of its pieces:        *)
(* characters, or a fixed word), None, dict (its items in insertion order,  *)
(* its keys fixed words), list, and set (a value json.dumps cannot          *)
(* serialise).                                                              *)
(***************************************************************************)
PyInt(n) == [k |-> "int", n |-> n]
\* an int of 2^31 or more, kept as its quotient and remainder by 86400
PyLong(days, secs) == [k |-> "int", days |-> days, secs |-> secs]
PyBool(b) == [k |-> "bool", b |-> b]
\* a float that is not negative: n + micro / 10^6 with 0 <= micro < 10^6
PyFloat(n, micro) == [k |-> "float", n |-> n, micro |-> micro]
\* float("nan")
PyNaN == [k |-> "float", nan |-> TRUE]
PyStr(s) == [k |-> "str", s |-> s]
\* the str of a text that is kept as its JSON tokens (a raw payload)
PyText(text) == [k |-> "str", text |-> text]
\* the str strftime("%Y-%m-%d %H:%M:%S") makes, kept as its six numbers
PyDate(d) == [k |-> "str", date |-> d]
PyNone == [k |-> "none"]
PyDict(items) == [k |-> "dict", items |-> items]
PyList(elems) == [k |-> "list", elems |-> elems]
PySet == [k |-> "set"]

IsDict(v) == v.k = "dict"

\* key in d
DictHas(d, key) == \E i \in 1..Len(d.items) : d.items[i][1] = key

\* d.get(key, default)
DictGet(d, key, default) ==
    IF DictHas(d, key)
    THEN d.items[CHOOSE i \in 1..Len(d.items) : d.items[i][1] = key][2]
    ELSE default

\* d[key] = val : replaces the value in place, or appends a new item
DictSet(d, key, val) ==
    IF DictHas(d, key)
    THEN PyDict([i \in 1..Len(d.items) |->
                    IF d.items[i][1] = key THEN <<key, val>> ELSE d.items[i]])
    ELSE PyDict(Append(d.items, <<key, val>>))

(***************************************************************************)
(* JSON text, as the sequence of its tokens (white space is no token).     *)
(***************************************************************************)
Punct(c) == [t |-> "punct", c |-> c]
TokInt(n) == [t |-> "int", n |-> n]
\* a string literal; v is the str it denotes
TokStr(v) == [t |-> "str", v |-> v]
TokNull == [t |-> "null"]
\* the literals true and false
TokBool(b) == [t |-> "bool", b |-> b]
\* a number literal with a fraction or an exponent
TokFloat(v) == [t |-> "float", v |-> v]
\* the literal NaN, which json.dumps writes and json.loads reads
TokNaN == [t |-> "nan"]
\* a number literal of an int of 2^31 or more
TokLong(v) == [t |-> "long", v |-> v]
\* a character sequence that is no JSON token
TokJunk(s) == [t |-> "junk", s |-> s]

RECURSIVE Serializable(_)
Serializable(v) ==
    CASE v.k = "dict" -> \A i \in 1..Len(v.items) : Serializable(v.items[i][2])
      [] v.k = "list" -> \A i \in 1..Len(v.elems) : Serializable(v.elems[i])
      [] v.k = "set" -> FALSE
      [] OTHER -> TRUE

RECURSIVE JsonDumpsItems(_, _)
RECURSIVE JsonDumpsElems(_, _)
RECURSIVE JsonDumps(_)
\* json.dumps(v) of a serialisable value
JsonDumps(v) ==
    CASE v.k = "int" -> IF "n" \in DOMAIN v THEN <<TokInt(v.n)>> ELSE <<TokLong(v)>>
      [] v.k = "bool" -> <<TokBool(v.b)>>
      [] v.k = "float" -> IF "nan" \in DOMAIN v THEN <<TokNaN>> ELSE <<TokFloat(v)>>
      [] v.k = "str" -> <<TokStr(v)>>
      [] v.k = "none" -> <<TokNull>>
      [] v.k = "dict" -> <<Punct("{")>> \o JsonDumpsItems(v.items, 1) \o <<Punct("}")>>
      [] v.k = "list" -> <<Punct("[")>> \o JsonDumpsElems(v.elems, 1) \o <<Punct("]")>>

JsonDumpsItems(items, i) ==
    IF i > Len(items) THEN <<>>
    ELSE (IF i > 1 THEN <<Punct(",")>> ELSE <<>>)
         \o <<TokStr(PyStr(<<items[i][1]>>)), Punct(":")>> \o JsonDumps(items[i][2])
         \o JsonDumpsItems(items, i + 1)

JsonDumpsElems(elems, i) ==
    IF i > Len(elems) THEN <<>>
    ELSE (IF i > 1 THEN <<Punct(",")>> ELSE <<>>)
         \o JsonDumps(elems[i]) \o JsonDumpsElems(elems, i + 1)

ParseFail == [ok |-> FALSE]
ParseOk(v, rest) == [ok |-> TRUE, val |-> v, rest |-> rest]

RECURSIVE ParseValue(_)
RECURSIVE ParseMembers(_, _)
RECURSIVE ParseElems(_, _)
\* one JSON value at the head of ts
ParseValue(ts) ==
    IF ts = <<>> THEN ParseFail
    ELSE LET h == Head(ts) IN
         CASE h.t = "int" -> ParseOk(PyInt(h.n), Tail(ts))
           [] h.t = "long" -> ParseOk(h.v, Tail(ts))
           [] h.t = "bool" -> ParseOk(PyBool(h.b), Tail(ts))
           [] h.t = "float" -> ParseOk(h.v, Tail(ts))
           [] h.t = "nan" -> ParseOk(PyNaN, Tail(ts))
           [] h.t = "str" -> ParseOk(h.v, Tail(ts))
           [] h.t = "null" -> ParseOk(PyNone, Tail(ts))
           [] h.t = "punct" /\ h.c = "{" ->
                IF Len(ts) >= 2 /\ ts[2] = Punct("}")
                THEN ParseOk(PyDict(<<>>), Tail(Tail(ts)))
                ELSE ParseMembers(Tail(ts), PyDict(<<>>))
           [] h.t = "punct" /\ h.c = "[" ->
                IF Len(ts) >= 2 /\ ts[2] = Punct("]")
                THEN ParseOk(PyList(<<>>), Tail(Tail(ts)))
                ELSE ParseElems(Tail(ts), <<>>)
           [] OTHER -> ParseFail

\* "key": value, then "," and more members or "}"; a repeated key keeps the last
ParseMembers(ts, acc) ==
    IF Len(ts) < 2 \/ ts[1].t # "str" \/ ts[2] # Punct(":") THEN ParseFail
    ELSE IF "s" \notin DOMAIN ts[1].v \/ Len(ts[1].v.s) # 1 THEN ParseFail
    ELSE LET r == ParseValue(Tail(Tail(ts))) IN
         IF ~r.ok \/ r.rest = <<>> THEN ParseFail
         ELSE LET d == DictSet(acc, ts[1].v.s[1], r.val) IN
              IF r.rest[1] = Punct("}") THEN ParseOk(d, Tail(r.rest))
              ELSE IF r.rest[1] = Punct(",") THEN ParseMembers(Tail(r.rest), d)
              ELSE ParseFail

ParseElems(ts, acc) ==
    LET r == ParseValue(ts) IN
    IF ~r.ok \/ r.rest = <<>> THEN ParseFail
    ELSE IF r.rest[1] = Punct("]") THEN ParseOk(PyList(Append(acc, r.val)), Tail(r.rest))
    ELSE IF r.rest[1] = Punct(",") THEN ParseElems(Tail(r.rest), Append(acc, r.val))
    ELSE ParseFail

\* json.loads(text): [ok |-> TRUE, val |-> v], or [ok |-> FALSE] when it raises
JsonLoads(ts) ==
    LET r == ParseValue(ts) IN
    IF r.ok /\ r.rest = <<>> THEN [ok |-> TRUE, val |-> r.val] ELSE [ok |-> FALSE]

(***************************************************************************)
(* MQTT topic filters (the subscriptions of on_connect).                   *)
(***************************************************************************)
RECURSIVE TopicMatches(_, _)
\* whether the broker routes a message published on topic to a subscription filter
TopicMatches(filter, topic) ==
    IF filter = <<>> THEN topic = <<>>
    ELSE IF Head(filter) = "#" THEN TRUE
    ELSE IF topic = <<>> THEN FALSE
    ELSE /\ Head(filter) = "+" \/ Head(filter) = Head(topic)
         /\ TopicMatches(Tail(filter), Tail(topic))

\* msg.topic.startswith("mocap/")
StartsWithMocap(topic) == Len(topic) >= 2 /\ topic[1] = "mocap"

(***************************************************************************)
(* State.                                                                  *)
(***************************************************************************)
VARIABLES
    mqtt_client_instance,  \* mqtt_client.py: the global; 0 is None, else a client
    client,                \* the mqtt.Client objects start_mqtt_client created
    detected_topics,       \* mqtt_client.py: the global set of topics
    published,             \* what the broker received from the bridge, in order
    cmds,                  \* the calls of publish_command, in order
    responses,             \* the calls of enviar_comando with their responses
    arrivals,              \* the calls of on_message, in order
    ws,                    \* each viewer session's consumer: where it stands
    group,                 \* the channel layer's group "mqtt_logs"
    chan,                  \* the channel layer: each consumer's channel
    frames,                \* the text frames each viewer was sent, in order
    blocked,               \* the viewers whose transport accepts no more frames
    broken,                \* the viewers whose transport fails every write
    leaves,                \* how often each session's disconnect handler ran
    reqs,                  \* number of text frames the viewers have sent
    produced               \* publisher_MQTT_final.py: the messages handed to
                           \* _mqtt.publish, in order

vars == <<mqtt_client_instance, client, detected_topics, published, cmds,
          responses, arrivals, ws, group, chan, frames, blocked, broken,
          leaves, reqs, produced>>

producerVars == <<produced>>
brokerVars == <<mqtt_client_instance, client, published, cmds, responses>>
hubVars == <<ws, group, chan, frames, blocked, broken, leaves, reqs>>

Clients == 1..MaxStarts
Sessions == {"A", "B", "C"}

\* a client object start_mqtt_client has not created yet
NoClient == [state |-> "absent", subs |-> {}, loop |-> FALSE, wire |-> <<>>, losses |-> 0]

Subscription(filter, qos) == [filter |-> filter, qos |-> qos]

(***************************************************************************)
(* mqtt_client.py                                                          *)
(***************************************************************************)
\* an on_connect that leaves out the telemetry subscription of line 84
OnConnectSubsNoTelemetry(rc) ==
    IF rc = 0 THEN {Subscription(TOPIC, QOS)} ELSE {}

\* a subscription to every topic
OnConnectSubsEverything(rc) ==
    IF rc = 0 THEN {Subscription(<<"#">>, QOS)} ELSE {}

\* the subscriptions on_connect makes for result code rc (lines 77-90)
OnConnectSubs(rc) ==
    IF rc = 0
    THEN {Subscription(TOPIC, QOS), Subscription(TELEMETRY_TOPIC, QOS)}
    ELSE {}

\* connect() raised in start_mqtt_client: the exception leaves AppConfig.ready
\* (apps.py line 57) and the process does not come up
Running == \A c \in Clients : client[c].state # "failed"

\* start_mqtt_client(): creates the client and stores it in the global before it
\* connects (line 193); connect() either opens the connection, and the loop thread
\* is started, or raises, and lines 203-204 are not reached.
start_mqtt_client(ok) ==
    /\ Running
    /\ \E c \in Clients :
         /\ client[c].state = "absent"
         /\ \A b \in Clients : b < c => client[b].state # "absent"
         /\ mqtt_client_instance' = c
         /\ client' = [client EXCEPT ![c] =
                          IF ok
                          THEN [NoClient EXCEPT !.state = "connecting", !.loop = TRUE]
                          ELSE [NoClient EXCEPT !.state = "failed"]]
    /\ UNCHANGED <<detected_topics, published, cmds, responses, arrivals>>
    /\ UNCHANGED hubVars
    /\ UNCHANGED producerVars

\* on_connect(client, userdata, flags, rc): the broker answered the CONNECT.
\* rc = 0: the connection is up, what was written to the socket meanwhile
\* reaches the broker.  rc # 0: the broker refused and closes the connection.
on_connect(c, rc) ==
    /\ Running
    /\ client[c].state = "connecting"
    /\ client' = [client EXCEPT
                    ![c].state = IF rc = 0 THEN "connected" ELSE "disconnected",
                    ![c].subs = client[c].subs \cup OnConnectSubs(rc),
                    ![c].wire = <<>>]
    /\ published' = IF rc = 0 THEN published \o client[c].wire ELSE published
    /\ UNCHANGED <<mqtt_client_instance, detected_topics, cmds, responses, arrivals>>
    /\ UNCHANGED hubVars
    /\ UNCHANGED producerVars

RECURSIVE Losses(_)
\* the connection losses of the clients cs so far
Losses(cs) ==
    IF cs = {} THEN 0
    ELSE LET c == CHOOSE x \in cs : TRUE IN client[c].losses + Losses(cs \ {c})

\* The connection of a connected client is lost.  The client was created with
\* the default clean session (line 193): the broker forgets its subscriptions.
ConnectionLost(c) ==
    /\ Running
    /\ client[c].state = "connected"
    /\ Losses(Clients) < MaxLosses
    /\ client' = [client EXCEPT ![c].state = "disconnected",
                                ![c].subs = {},
                                ![c].losses = client[c].losses + 1]
    /\ UNCHANGED <<mqtt_client_instance, detected_topics, published, cmds,
                   responses, arrivals>>
    /\ UNCHANGED hubVars
    /\ UNCHANGED producerVars

\* loop_forever (line 203) connects again after a loss or a refusal.
Reconnect(c) ==
    /\ Running
    /\ client[c].state = "disconnected"
    /\ client[c].loop
    /\ client' = [client EXCEPT ![c].state = "connecting"]
    /\ UNCHANGED <<mqtt_client_instance, detected_topics, published, cmds,
                   responses, arrivals>>
    /\ UNCHANGED hubVars
    /\ UNCHANGED producerVars

\* the connection state publish_command finds: "none" when the global is None
InstanceState == IF mqtt_client_instance = 0 THEN "none"
                 ELSE client[mqtt_client_instance].state

\* a publish_command that publishes on the telemetry topic
CommandMessageOnTelemetry(packet, n) ==
    [topic |-> TELEMETRY_TOPIC, payload |-> JsonDumps(packet), qos |-> 0, cmd |-> n]

\* the message publish_command hands to publish (lines 168-171); n is the call
CommandMessage(packet, n) ==
    [topic |-> COMMAND_TOPIC, payload |-> JsonDumps(packet), qos |-> 0, cmd |-> n]

\* what publish_command prints (lines 162-176)
PublishLog(state, packet) ==
    IF state = "none" THEN "error_not_started"
    ELSE IF ~Serializable(packet) THEN "error_publish"
    ELSE "published"

\* mqtt_client_instance.publish at QoS 0 (line 171): written to the socket when
\* there is one, else it returns MQTT_ERR_NO_CONN, which the code does not read;
\* nothing is kept for later.
PublishWrites(state) == state \in {"connecting", "connected"}

\* publish_command(packet), as a relation on the broker side of the state
PublishCommand(packet) ==
    LET n == Len(cmds) + 1
        st == InstanceState
        log == PublishLog(st, packet)
        c == mqtt_client_instance
        msg == CommandMessage(packet, n)
        sent == log = "published" /\ PublishWrites(st)
    IN  /\ cmds' = Append(cmds, [packet |-> packet, conn |-> st, log |-> log,
                                 sent |-> sent])
        /\ IF sent
           THEN IF st = "connected"
                THEN /\ published' = Append(published, msg)
                     /\ client' = client
                ELSE /\ client' = [client EXCEPT ![c].wire = Append(@, msg)]
                     /\ published' = published
           ELSE /\ published' = published
                /\ client' = client
        /\ mqtt_client_instance' = mqtt_client_instance

\* the packets other code of the process hands to publish_command
DirectPackets ==
    { PyDict(<< <<"pid", PyInt(11)>>, <<"spd", PyInt(50)>> >>),
      PyDict(<< <<"pid", PySet>> >>) }

publish_command(packet) ==
    /\ Running
    /\ Len(cmds) < MaxCmds
    /\ PublishCommand(packet)
    /\ UNCHANGED <<detected_topics, responses, arrivals>>
    /\ UNCHANGED hubVars
    /\ UNCHANGED producerVars

(***************************************************************************)
(* interfaz/views.py                                                       *)
(***************************************************************************)
\* request.data of a POST to the command API
RequestData ==
    { PyDict(<< <<"pid", PyInt(11)>>, <<"spd", PyInt(50)>> >>),
      PyDict(<< <<"spd", PyInt(50)>> >>),
      PyList(<<PyInt(11)>>) }

\* line 267, negated: the packet is a mapping with the key 'pid'
ValidPacket(packet) == IsDict(packet) /\ DictHas(packet, "pid")

\* enviar_comando(request): the view is served once AppConfig.ready has run
enviar_comando(packet) ==
    /\ Running
    /\ mqtt_client_instance # 0
    /\ Len(responses) < MaxCmds
    /\ Len(cmds) < MaxCmds
    /\ IF ~ValidPacket(packet)
       THEN /\ responses' = Append(responses,
                                   [packet |-> packet, status |-> 400, cmd |-> 0])
            /\ UNCHANGED <<mqtt_client_instance, client, published, cmds>>
       ELSE /\ PublishCommand(packet)
            /\ responses' = Append(responses,
                                   [packet |-> packet, status |-> 200,
                                    cmd |-> Len(cmds) + 1])
    /\ UNCHANGED <<detected_topics, arrivals>>
    /\ UNCHANGED hubVars
    /\ UNCHANGED producerVars

(***************************************************************************)
(* Broker messages.                                                        *)
(***************************************************************************)
\* msg.payload: bytes that are UTF-8 text (its JSON tokens) or are not
Bytes(text) == [utf8 |-> TRUE, text |-> text]
NotUtf8 == [utf8 |-> FALSE, text |-> <<>>]

\* the packet of the end-to-end scenario (spec section 8)
TelemetryPacket ==
    PyDict(<< <<"src", PyInt(10)>>, <<"ptp", PyInt(2)>>, <<"pid", PyInt(0)>>,
              <<"pts", PyInt(1700000000)>>, <<"cks", PyStr(<<"x">>)>> >>)

\* the messages published at the broker: a telemetry packet; on a mocap topic
\* text that is no JSON, JSON that is no object, bytes that are no UTF-8; and a
\* command on the command topic
BrokerMessages ==
    { [topic |-> TELEMETRY_TOPIC, payload |-> Bytes(JsonDumps(TelemetryPacket))],
      [topic |-> <<"mocap", "1">>, payload |-> Bytes(<<Punct("{"), TokJunk("not json")>>)],
      [topic |-> <<"mocap", "1">>, payload |-> Bytes(JsonDumps(PyList(<<PyInt(1)>>)))],
      [topic |-> <<"mocap", "1">>, payload |-> NotUtf8],
      [topic |-> COMMAND_TOPIC,
       payload |-> Bytes(JsonDumps(PyDict(<< <<"pid", PyInt(11)>> >>)))] }

\* the broker routes a message on topic to client c
Routed(c, topic) ==
    /\ client[c].state = "connected"
    /\ client[c].loop
    /\ \E sub \in client[c].subs : TopicMatches(sub.filter, topic)

\* a fan-out that puts the event before the events that wait
EnqueueFront(q, ev) == <<ev>> \o q

\* channel_layer.group_send appends the event to a member's channel (lines 125-132)
Enqueue(q, ev) == Append(q, ev)

\* a fan-out whose channels share one payload buffer: an event that joins a
\* waiting event takes the payload of the first
ChannelSendShared(q, ev) ==
    IF Len(q) >= ChannelCapacity THEN q
    ELSE IF q # <<>> THEN Append(q, [ev EXCEPT !.payload = q[1].payload])
    ELSE Append(q, ev)

\* a channel that is full drops the event: group_send swallows ChannelFull
ChannelSend(q, ev) == IF Len(q) >= ChannelCapacity THEN q ELSE Enqueue(q, ev)

\* a registry that keeps only the last topic
RecordTopicOnly(registry, topic) == {topic}

\* detected_topics.add(msg.topic) (line 115)
RecordTopic(registry, topic) == registry \cup {topic}

\* an exception that leaves on_message and ends the loop thread of client c
EscapesOnMessage(c) == [client EXCEPT ![c].loop = FALSE]

\* lines 147-148: the except of on_message catches the exception and prints
\* it; on_message returns and the loop thread of client c goes on
CaughtInOnMessage(c) == client

\* on_message(client, userdata, msg) on the loop thread of client c
on_message(c, topic, payload) ==
    /\ Routed(c, topic)
    /\ Len(arrivals) < MaxMsgs
    /\ LET n == Len(arrivals) + 1 IN
       IF ~payload.utf8
       THEN \* line 112 raises, line 147 catches: nothing else runs
            /\ arrivals' = Append(arrivals, [topic |-> topic, payload |-> payload,
                                             forwarded |-> FALSE, members |-> {},
                                             error |-> "decode"])
            /\ client' = CaughtInOnMessage(c)
            /\ UNCHANGED <<detected_topics, chan>>
       ELSE /\ client' = client
            /\ detected_topics' = RecordTopic(detected_topics, topic)
            /\ chan' = [s \in Sessions |->
                          IF s \in group
                          THEN ChannelSend(chan[s],
                                           [type |-> "mqtt_message", topic |-> topic,
                                            payload |-> payload.text, seq |-> n])
                          ELSE chan[s]]
            /\ arrivals' = Append(arrivals, [topic |-> topic, payload |-> payload,
                                             forwarded |-> TRUE, members |-> group,
                                             error |-> "none"])
    /\ UNCHANGED <<ws, group, frames, blocked, broken, leaves, reqs>>
    /\ UNCHANGED <<mqtt_client_instance, published, cmds, responses>>
    /\ UNCHANGED producerVars

\* on_message when group_send raises (the channel layer cannot be reached):
\* the topic is recorded (line 115), nothing is forwarded, lines 147-148 catch
on_message_send_fails(c, topic, payload) ==
    /\ Routed(c, topic)
    /\ Len(arrivals) < MaxMsgs
    /\ payload.utf8
    /\ detected_topics' = RecordTopic(detected_topics, topic)
    /\ arrivals' = Append(arrivals, [topic |-> topic, payload |-> payload,
                                     forwarded |-> FALSE, members |-> {},
                                     error |-> "send"])
    /\ client' = CaughtInOnMessage(c)
    /\ UNCHANGED <<mqtt_client_instance, published, cmds, responses>>
    /\ UNCHANGED hubVars
    /\ UNCHANGED producerVars

(***************************************************************************)
(* publisher_MQTT_final.py: the producer of the motion-capture packets      *)
(***************************************************************************)
\* class Source(Enum) (lines 63-148): the name of each value
Source ==
    (0 :> "ROBOTAT_SERVER")
    @@ (1 :> "USER_PC")
    @@ (10 :> "POLOLU_00")
    @@ (11 :> "POLOLU_01")
    @@ (12 :> "POLOLU_02")
    @@ (13 :> "POLOLU_03")
    @@ (14 :> "POLOLU_04")
    @@ (15 :> "POLOLU_05")
    @@ (16 :> "POLOLU_06")
    @@ (17 :> "POLOLU_07")
    @@ (18 :> "POLOLU_08")
    @@ (19 :> "POLOLU_09")
    @@ (20 :> "POLOLU_10")
    @@ (21 :> "POLOLU_11")
    @@ (22 :> "POLOLU_12")
    @@ (23 :> "POLOLU_13")
    @@ (24 :> "POLOLU_14")
    @@ (25 :> "POLOLU_15")
    @@ (26 :> "POLOLU_16")
    @@ (27 :> "POLOLU_17")
    @@ (28 :> "POLOLU_18")
    @@ (29 :> "POLOLU_19")
    @@ (30 :> "POLOLU_20")
    @@ (31 :> "POLOLU_21")
    @@ (32 :> "POLOLU_22")
    @@ (33 :> "POLOLU_23")
    @@ (34 :> "POLOLU_24")
    @@ (35 :> "POLOLU_25")
    @@ (36 :> "POLOLU_26")
    @@ (37 :> "POLOLU_27")
    @@ (38 :> "POLOLU_28")
    @@ (39 :> "POLOLU_29")
    @@ (40 :> "POLOLU_30")
    @@ (41 :> "POLOLU_31")
    @@ (42 :> "POLOLU_32")
    @@ (50 :> "CRAZYFLIE_00")
    @@ (51 :> "CRAZYFLIE_01")
    @@ (52 :> "CRAZYFLIE_02")
    @@ (53 :> "CRAZYFLIE_03")
    @@ (54 :> "CRAZYFLIE_04")
    @@ (55 :> "CRAZYFLIE_05")
    @@ (56 :> "CRAZYFLIE_06")
    @@ (57 :> "CRAZYFLIE_07")
    @@ (58 :> "CRAZYFLIE_08")
    @@ (59 :> "CRAZYFLIE_09")
    @@ (60 :> "CRAZYFLIE_10")
    @@ (61 :> "CRAZYFLIE_11")
    @@ (62 :> "CRAZYFLIE_12")
    @@ (63 :> "CRAZYFLIE_13")
    @@ (64 :> "CRAZYFLIE_14")
    @@ (65 :> "CRAZYFLIE_15")
    @@ (66 :> "CRAZYFLIE_16")
    @@ (67 :> "CRAZYFLIE_17")
    @@ (68 :> "CRAZYFLIE_18")
    @@ (69 :> "CRAZYFLIE_19")
    @@ (70 :> "CRAZYFLIE_20")
    @@ (80 :> "MAXARM_00")
    @@ (81 :> "MAXARM_01")
    @@ (82 :> "MAXARM_02")
    @@ (83 :> "MAXARM_03")
    @@ (84 :> "MAXARM_04")
    @@ (85 :> "MAXARM_05")
    @@ (86 :> "MAXARM_06")
    @@ (87 :> "MAXARM_07")
    @@ (88 :> "MAXARM_08")
    @@ (89 :> "MAXARM_09")
    @@ (90 :> "MAXARM_10")
    @@ (91 :> "MAXARM_11")
    @@ (92 :> "MAXARM_12")
    @@ (93 :> "MAXARM_13")
    @@ (94 :> "MAXARM_14")
    @@ (95 :> "MAXARM_15")
    @@ (96 :> "MAXARM_16")
    @@ (97 :> "MAXARM_17")
    @@ (98 :> "MAXARM_18")
    @@ (99 :> "MAXARM_19")
    @@ (100 :> "MAXARM_20")

\* CURRENT_SOURCE.value (line 197: Source.ROBOTAT_SERVER)
CURRENT_SOURCE == 0
\* PacketType.MOCAP.value (line 162)
MOCAP == 2
\* TOPIC of the producer (line 47): "mocap/all"
PUBLISHER_TOPIC == <<"mocap", "all">>

\* {k: v for k, v in packet_dict.items() if k != "cks"} (line 234)
WithoutCks(d) ==
    LET Kept(item) == item[1] # "cks" IN PyDict(SelectSeq(d.items, Kept))

\* hashlib.sha256(json_bytes).hexdigest() (line 238): the str of 64 hexadecimal
\* digits that belongs to the text. It is kept as the text it is the digest
\* of: SHA-256 is taken to give two texts the same digest only when they are
\* the same text.
Sha256Hex(text) == [k |-> "str", sha256 |-> text]

\* a checksum that leaves pts out as well
ChecksumWithoutPts(packet_dict) ==
    LET Kept(item) == item[1] \notin {"cks", "pts"} IN
    Sha256Hex(JsonDumps(PyDict(SelectSeq(packet_dict.items, Kept))))

\* _calculate_checksum(packet_dict) (lines 230-238)
_calculate_checksum(packet_dict) == Sha256Hex(JsonDumps(WithoutCks(packet_dict)))

RECURSIVE NumDigits(_)
\* the number of digits of n >= 0
NumDigits(n) == IF n < 10 THEN 1 ELSE 1 + NumDigits(n \div 10)

RECURSIVE TrailingZeros(_)
\* the zeros at the end of m > 0
TrailingZeros(m) == IF m % 10 # 0 THEN 0 ELSE 1 + TrailingZeros(m \div 10)

\* the characters of a token of the pose payload as json.dumps writes it: a
\* punctuation mark, a key in quotes, NaN, or the repr of a float (digits,
\* point, the fraction without its last zeros; for floats from 0.0001 on)
TokenLen(tok) ==
    CASE tok.t = "punct" -> 1
      [] tok.t = "str" -> 2 + Len(tok.v.s[1])
      [] tok.t = "nan" -> 3
      [] tok.t = "float" ->
           NumDigits(tok.v.n) + 1
           + (IF tok.v.micro = 0 THEN 1 ELSE 6 - TrailingZeros(tok.v.micro))

RECURSIVE TextLen(_)
\* len(payload_json.encode("utf-8")) (line 310); every character is one byte
TextLen(text) == IF text = <<>> THEN 0 ELSE TokenLen(Head(text)) + TextLen(Tail(text))

\* lines 296-306: pose_payload
PosePayload(position, rotation) ==
    PyDict(<< <<"pose", PyDict(<<
        <<"position", PyDict(<< <<"x", position[1]>>, <<"y", position[2]>>,
                                <<"z", position[3]>> >>)>>,
        <<"rotation", PyDict(<< <<"qx", rotation[1]>>, <<"qy", rotation[2]>>,
                                <<"qz", rotation[3]>>, <<"qw", rotation[4]>> >>)>>
        >>)>> >>)

\* _publish_packet(packet) (lines 245-247): the message handed to the client
_publish_packet(packet) ==
    Append(produced, [topic |-> PUBLISHER_TOPIC, payload |-> Bytes(JsonDumps(packet))])

\* the rigid bodies the motion capture reports: ids (mocap_data has 100 rows),
\* positions, rotations; and the clock of the producer
BodyIds == {1, 2, 100}
Positions ==
    { <<PyFloat(0, 0), PyFloat(0, 0), PyFloat(0, 0)>>,
      <<PyFloat(1, 500000), PyFloat(0, 250000), PyNaN>> }
Rotations ==
    { <<PyFloat(0, 0), PyFloat(0, 0), PyFloat(0, 0), PyFloat(1, 0)>>,
      <<PyFloat(0, 500000), PyFloat(0, 500000), PyFloat(0, 500000), PyFloat(0, 500000)>> }
Clock == {PyFloat(1700000000, 500000), PyFloat(1700000001, 0)}

\* lines 296-326: the packet on_rigid_body builds and checksums
RigidBodyPacket(id, position, rotation, now) ==
    LET pose_payload == PosePayload(position, rotation)
        packet == PyDict(<< <<"src", PyInt(CURRENT_SOURCE)>>,
                            <<"pts", now>>,
                            <<"ptp", PyInt(MOCAP)>>,
                            <<"pid", PyInt(id)>>,
                            <<"psb", PyInt(TextLen(JsonDumps(pose_payload)))>>,
                            <<"pld", pose_payload>>,
                            <<"cks", PyNone>> >>)
    IN  DictSet(packet, "cks", _calculate_checksum(packet))

\* on_rigid_body(id, position, rotation) (lines 282-329) at the time now
on_rigid_body(id, position, rotation, now) ==
    /\ Len(produced) < MaxBodies
    /\ IF id >= 100
       THEN \* line 269 raises IndexError: nothing is published
            produced' = produced
       ELSE produced' = _publish_packet(RigidBodyPacket(id, position, rotation, now))
    /\ UNCHANGED brokerVars
    /\ UNCHANGED hubVars
    /\ UNCHANGED <<detected_topics, arrivals>>

(***************************************************************************)
(* mqtt_bridge/consumers.py                                                *)
(***************************************************************************)
Digits == <<"0", "1", "2", "3", "4", "5", "6", "7", "8", "9">>

\* f"{n:02d}" for 0 <= n < 100
TwoDigits(n) == <<Digits[(n \div 10) + 1], Digits[(n % 10) + 1]>>

\* the keys of SOURCE_MAP (lines 44-50)
InSourceMap(n) == n = 0 \/ n = 1 \/ n \in 10..42 \/ n \in 50..70 \/ n \in 80..100

\* a mapping whose indices start at 1
SOURCE_MAP_FromOne(n) ==
    CASE n = 0 -> PyStr(<<"ROBOTAT_SERVER">>)
      [] n = 1 -> PyStr(<<"USER_PC">>)
      [] n \in 10..42 -> PyStr(<<"POLOLU_">> \o TwoDigits(n - 9))
      [] n \in 50..70 -> PyStr(<<"CRAZYFLIE_">> \o TwoDigits(n - 49))
      [] n \in 80..100 -> PyStr(<<"MAXARM_">> \o TwoDigits(n - 79))

SOURCE_MAP(n) ==
    CASE n = 0 -> PyStr(<<"ROBOTAT_SERVER">>)
      [] n = 1 -> PyStr(<<"USER_PC">>)
      [] n \in 10..42 -> PyStr(<<"POLOLU_">> \o TwoDigits(n - 10))
      [] n \in 50..70 -> PyStr(<<"CRAZYFLIE_">> \o TwoDigits(n - 50))
      [] n \in 80..100 -> PyStr(<<"MAXARM_">> \o TwoDigits(n - 80))

InPacketTypeMap(n) == n \in 0..2

PACKET_TYPE_MAP(n) ==
    CASE n = 0 -> PyStr(<<"DATA">>)
      [] n = 1 -> PyStr(<<"COMMAND">>)
      [] n = 2 -> PyStr(<<"MOCAP">>)

InPacketIdMap(n) == n \in 0..2 \/ n \in 10..14

PACKET_ID_MAP(n) ==
    CASE n = 0 -> PyStr(<<"STATE">>)
      [] n = 1 -> PyStr(<<"SENSOR">>)
      [] n = 2 -> PyStr(<<"MESSAGE">>)
      [] n = 10 -> PyStr(<<"FORCE_STOP">>)
      [] n = 11 -> PyStr(<<"FORWARD">>)
      [] n = 12 -> PyStr(<<"BACKWARD">>)
      [] n = 13 -> PyStr(<<"LEFT">>)
      [] n = 14 -> PyStr(<<"RIGHT">>)

\* "v in <dict>" raises TypeError for a value that cannot be hashed
Hashable(v) == v.k \notin {"list", "dict", "set"}

\* v equals an int as a dict key (same hash, ==): an int, a bool (True is 1,
\* False is 0), a float without fraction (10.0 is 10)
HasKeyInt(v) ==
    \/ v.k = "int" /\ "n" \in DOMAIN v
    \/ v.k = "bool"
    \/ v.k = "float" /\ "nan" \notin DOMAIN v /\ v.micro = 0

\* that int
KeyInt(v) == IF v.k = "bool" THEN (IF v.b THEN 1 ELSE 0) ELSE v.n

\* the date of a day count since 1970-01-01 (proleptic Gregorian calendar)
CivilFromDays(days) ==
    LET z == days + 719468
        era == z \div 146097
        doe == z - era * 146097
        yoe == (doe - (doe \div 1460) + (doe \div 36524) - (doe \div 146096)) \div 365
        doy == doe - (365 * yoe + (yoe \div 4) - (yoe \div 100))
        mp == (5 * doy + 2) \div 153
        d == doy - ((153 * mp + 2) \div 5) + 1
        m == IF mp < 10 THEN mp + 3 ELSE mp - 9
        y == yoe + era * 400 + (IF m <= 2 THEN 1 ELSE 0)
    IN  [year |-> y, month |-> m, day |-> d]

\* strftime("%Y-%m-%d %H:%M:%S") of the datetime that is secs seconds into
\* the day that is days days after 1970-01-01
UtcStringOf(days, secs) ==
    LET date == CivilFromDays(days) IN
    PyDate([year |-> date.year, month |-> date.month, day |-> date.day,
            hour |-> secs \div 3600, minute |-> (secs % 3600) \div 60,
            second |-> secs % 60])

\* datetime.utcfromtimestamp(n).strftime("%Y-%m-%d %H:%M:%S") for an int n
UtcString(n) == UtcStringOf(n \div 86400, n % 86400)

\* datetime.utcfromtimestamp(v) takes v: an int, a bool, a float that is a number
IsTimestamp(v) == v.k \in {"int", "bool"} \/ (v.k = "float" /\ "nan" \notin DOMAIN v)

\* the whole seconds of a timestamp, as days since 1970-01-01 and seconds of
\* the day (the microseconds of a float are not printed)
StampOf(v) ==
    CASE v.k = "bool" -> [days |-> 0, secs |-> IF v.b THEN 1 ELSE 0]
      [] v.k = "int" /\ "n" \notin DOMAIN v -> [days |-> v.days, secs |-> v.secs]
      [] OTHER -> [days |-> v.n \div 86400, secs |-> v.n % 86400]

\* utcfromtimestamp raises ValueError outside the years 1..9999:
\* 0001-01-01 is day -719162, 9999-12-31 is day 2932896
InDatetimeRange(st) == st.days >= -719162 /\ st.days <= 2932896

\* str(v): a str is itself, None is "None", any other value its repr
StrOf(v) ==
    CASE v.k = "str" -> v
      [] v.k = "none" -> PyStr(<<"None">>)
      [] OTHER -> [k |-> "str", repr |-> v]

\* a formatting that takes every int for a date it can print
FormatPtsAnyInt(pts) ==
    IF pts.k = "int"
    THEN UtcStringOf(StampOf(pts).days % 2932897, StampOf(pts).secs)
    ELSE StrOf(pts)

\* lines 178-181: the pts of the packet sent; str(pts) when utcfromtimestamp
\* raises (TypeError, ValueError, OverflowError)
FormatPts(pts) ==
    IF IsTimestamp(pts) /\ InDatetimeRange(StampOf(pts))
    THEN UtcStringOf(StampOf(pts).days, StampOf(pts).secs)
    ELSE StrOf(pts)

\* the character U+2026 of line 187
Ellipsis == "U+2026"

\* a shortening that starts at 12 characters
ShortenCksFrom12(d, cks) ==
    IF cks.k = "str" /\ "s" \in DOMAIN cks /\ Len(cks.s) >= 12
    THEN DictSet(d, "cks",
                 PyStr(SubSeq(cks.s, 1, 8) \o <<Ellipsis>>
                       \o SubSeq(cks.s, Len(cks.s) - 3, Len(cks.s))))
    ELSE d

\* the first 8 characters, the ellipsis and the last 4 characters of a digest
ShortDigest(cks) == [k |-> "str", shortened |-> cks]

\* lines 186-187: the dict after the checksum is shortened; a digest has 64
\* characters
ShortenCks(d, cks) ==
    IF cks.k = "str" /\ "s" \in DOMAIN cks /\ Len(cks.s) > 12
    THEN DictSet(d, "cks",
                 PyStr(SubSeq(cks.s, 1, 8) \o <<Ellipsis>>
                       \o SubSeq(cks.s, Len(cks.s) - 3, Len(cks.s))))
    ELSE IF cks.k = "str" /\ "sha256" \in DOMAIN cks
    THEN DictSet(d, "cks", ShortDigest(cks))
    ELSE d

\* lines 170-171: src replaced by its label when its value is a key
RelabelSrc(d) ==
    LET v == DictGet(d, "src", PyNone) IN
    IF HasKeyInt(v) /\ InSourceMap(KeyInt(v))
    THEN DictSet(d, "src", SOURCE_MAP(KeyInt(v))) ELSE d

\* lines 172-173: ptp replaced by its label when its value is a key
RelabelPtp(d) ==
    LET v == DictGet(d, "ptp", PyNone) IN
    IF HasKeyInt(v) /\ InPacketTypeMap(KeyInt(v))
    THEN DictSet(d, "ptp", PACKET_TYPE_MAP(KeyInt(v))) ELSE d

\* a relabelling that blanks a pid that is no key
RelabelPidOrNone(d) ==
    LET v == DictGet(d, "pid", PyNone) IN
    IF HasKeyInt(v) /\ InPacketIdMap(KeyInt(v))
    THEN DictSet(d, "pid", PACKET_ID_MAP(KeyInt(v))) ELSE DictSet(d, "pid", PyNone)

\* lines 174-175: pid replaced by its label when its value is a key
RelabelPid(d) ==
    LET v == DictGet(d, "pid", PyNone) IN
    IF HasKeyInt(v) /\ InPacketIdMap(KeyInt(v))
    THEN DictSet(d, "pid", PACKET_ID_MAP(KeyInt(v))) ELSE d

\* a decoding that falls back to an empty dict
DecodePayloadNoRaw(text) ==
    LET r == JsonLoads(text) IN
    IF r.ok THEN r.val ELSE PyDict(<<>>)

\* lines 152-156: json.loads(payload_raw), or {"raw": payload_raw}
DecodePayload(text) ==
    LET r == JsonLoads(text) IN
    IF r.ok THEN r.val ELSE PyDict(<< <<"raw", PyText(text)>> >>)

\* lines 161-175 raise: .get on a value that is no dict (AttributeError), or
\* "in" on a field that cannot be hashed (TypeError)
TranslateRaises(decoded) ==
    \/ ~IsDict(decoded)
    \/ \E key \in {"src", "ptp", "pid"} : ~Hashable(DictGet(decoded, key, PyNone))

\* a translation that sends an error for a packet whose cks does not verify
TranslateChecked(decoded) ==
    IF DictHas(decoded, "cks")
       /\ DictGet(decoded, "cks", PyNone) # _calculate_checksum(decoded)
    THEN PyDict(<< <<"error", PyStr(<<"checksum">>)>> >>)
    ELSE LET cks == DictGet(decoded, "cks", PyStr(<<>>))
             pts == DictGet(decoded, "pts", PyNone)
             d4 == DictSet(RelabelPid(RelabelPtp(RelabelSrc(decoded))), "pts",
                           FormatPts(pts))
         IN  ShortenCks(d4, cks)

\* lines 161-187: the packet sent for a decoded dict
Translate(decoded) ==
    LET cks == DictGet(decoded, "cks", PyStr(<<>>))
        pts == DictGet(decoded, "pts", PyNone)
        d1 == RelabelSrc(decoded)
        d2 == RelabelPtp(d1)
        d3 == RelabelPid(d2)
        d4 == DictSet(d3, "pts", FormatPts(pts))
    IN  ShortenCks(d4, cks)

\* lines 193-200: the text of the frame for an event
MqttFrame(ev) ==
    JsonDumps(PyDict(<< <<"type", PyStr(<<"mqtt_message">>)>>,
                        <<"topic", PyStr(ev.topic)>>,
                        <<"packet", Translate(DecodePayload(ev.payload))>> >>))

\* the codes a packet is given for src, ptp or pid
Codes == (-3..MaxCode) \cup {9999}

\* the values a packet is given for src, ptp or pid: codes; values that equal a
\* code (true, false, 10.0) and numbers that do not; a label, a numeral in a
\* str, null; a list, which cannot be hashed
FieldValues ==
    {PyInt(n) : n \in Codes}
    \cup {PyBool(TRUE), PyBool(FALSE), PyFloat(10, 0), PyFloat(10, 500000), PyNaN,
          PyLong(2932897, 0), PyStr(<<"POLOLU_", "0", "0">>), PyStr(<<"7">>), PyNone,
          PyList(<<PyInt(1)>>)}

\* the values a packet is given for pts: UNIX times (the last second of the
\* year 9999 is 2932896 * 86400 + 86399), the second after them, true, a
\* float as the producer sends it, NaN; a str, null, a list, an object
PtsValues ==
    {PyInt(0), PyInt(1700000000), PyLong(2932896, 86399), PyLong(2932897, 0),
     PyBool(TRUE), PyFloat(1700000000, 500000), PyNaN, PyStr(<<"a", "b", "c">>),
     PyNone, PyList(<<PyInt(1)>>), PyDict(<<>>)}

HexDigits ==
    <<"0", "1", "2", "3", "4", "5", "6", "7", "8", "9", "a", "b", "c", "d", "e", "f">>

\* a str of n hexadecimal digits
HexString(n) == [i \in 1..n |-> HexDigits[(i % 16) + 1]]

\* the values a packet is given for cks: strs of 0, 1, 12, 13, 14 and MaxCks
\* characters; an int, null, a list
CksValues ==
    {PyStr(HexString(n)) : n \in {0, 1, 12, 13, 14, MaxCks}}
    \cup {PyInt(5), PyNone, PyList(<<>>)}

\* a packet with every field, each code a key of its mapping
FullPacket ==
    PyDict(<< <<"src", PyInt(42)>>, <<"pts", PyFloat(1700000000, 500000)>>,
              <<"ptp", PyInt(2)>>, <<"pid", PyInt(1)>>, <<"psb", PyInt(56)>>,
              <<"pld", PyList(<<PyInt(1), PyInt(2)>>)>>,
              <<"cks", PyStr(HexString(MaxCks))>> >>)

\* the packets the translation of mqtt_message is applied to
TranslatePackets ==
    {PyDict(<< <<key, v>> >>) : key \in {"src", "ptp", "pid"}, v \in FieldValues}
    \cup {PyDict(<< <<"pts", v>> >>) : v \in PtsValues}
    \cup {PyDict(<< <<"cks", v>> >>) : v \in CksValues}
    \cup {PyDict(<<>>), TelemetryPacket, FullPacket}

\* the packets mqtt_message has sent for them: packets already translated
TranslatedPackets ==
    {Translate(p) : p \in {q \in TranslatePackets : ~TranslateRaises(q)}}

\* the broker messages that carry these packets
TranslateMessages ==
    {[topic |-> <<"mocap", "1">>, payload |-> Bytes(JsonDumps(p))] :
        p \in TranslatePackets \cup TranslatedPackets}

\* the packets of two rigid bodies as the producer publishes them, and the
\* same packets with a cks that is the digest of another text
ChecksumPackets ==
    LET position == <<PyFloat(0, 0), PyFloat(0, 0), PyFloat(0, 0)>>
        rotation == <<PyFloat(0, 0), PyFloat(0, 0), PyFloat(0, 0), PyFloat(1, 0)>>
        sent == {RigidBodyPacket(id, position, rotation, PyFloat(1700000000, 500000)) :
                    id \in {1, 2}}
    IN  sent \cup {DictSet(P, "cks", Sha256Hex(<<>>)) : P \in sent}

\* the broker messages that carry them
ChecksumMessages ==
    {[topic |-> PUBLISHER_TOPIC, payload |-> Bytes(JsonDumps(P))] : P \in ChecksumPackets}

\* the events on_message can put on a channel, without their number
Forwardable ==
    {[topic |-> m.topic, payload |-> m.payload.text] :
        m \in {x \in BrokerMessages \cup TranslateMessages \cup ChecksumMessages :
                  x.payload.utf8}}

\* what mqtt_message does with each of them: it raises, or sends the frame text
MqttMessageResult ==
    [e \in Forwardable |->
        IF TranslateRaises(DecodePayload(e.payload))
        THEN [raises |-> TRUE]
        ELSE [raises |-> FALSE, text |-> MqttFrame(e)]]

\* the code points of the characters of a topic level
LevelCodes(level) ==
    CASE level = "mocap" -> <<109, 111, 99, 97, 112>>
      [] level = "pololu01" -> <<112, 111, 108, 111, 108, 117, 48, 49>>
      [] level = "tel" -> <<116, 101, 108>>
      [] level = "cmd" -> <<99, 109, 100>>
      [] level = "1" -> <<49>>
      [] level = "10" -> <<49, 48>>
      [] level = "2" -> <<50>>
      [] level = "all" -> <<97, 108, 108>>

RECURSIVE TopicCodes(_)
\* the code points of msg.topic: its levels with "/" (47) between them
TopicCodes(topic) ==
    IF topic = <<>> THEN <<>>
    ELSE IF Len(topic) = 1 THEN LevelCodes(topic[1])
    ELSE LevelCodes(topic[1]) \o <<47>> \o TopicCodes(Tail(topic))

RECURSIVE StrLess(_, _)
\* a < b of two str, given by their code points
StrLess(a, b) ==
    IF b = <<>> THEN FALSE
    ELSE IF a = <<>> THEN TRUE
    ELSE IF Head(a) # Head(b) THEN Head(a) < Head(b)
    ELSE StrLess(Tail(a), Tail(b))

RECURSIVE SortedTopicsDescending(_)
\* a sort of the topics in descending order
SortedTopicsDescending(topics) ==
    IF topics = {} THEN <<>>
    ELSE LET m == CHOOSE t \in topics :
                     \A u \in topics \ {t} : StrLess(TopicCodes(u), TopicCodes(t))
         IN  <<m>> \o SortedTopicsDescending(topics \ {m})

RECURSIVE SortedTopics(_)
\* sorted(list(detected_topics)): the least topic, then the rest sorted
SortedTopics(topics) ==
    IF topics = {} THEN <<>>
    ELSE LET m == CHOOSE t \in topics :
                     \A u \in topics \ {t} : StrLess(TopicCodes(t), TopicCodes(u))
         IN  <<m>> \o SortedTopics(topics \ {m})

\* lines 128-131: the text of the topics_list frame
TopicsFrame(topics) ==
    LET sorted == SortedTopics(topics) IN
    JsonDumps(PyDict(<< <<"type", PyStr(<<"topics_list">>)>>,
                        <<"topics", PyList([i \in 1..Len(sorted) |-> PyStr(sorted[i])])>> >>))

\* a handler of session s raises: the consumer ends and no handler of it runs again
Raise(s) ==
    /\ ws' = [ws EXCEPT ![s] = "crashed"]
    /\ frames' = frames

\* self.send(text_data=text) of session s: the frame is written; or the send
\* never returns when the transport of s takes no more; or the write fails and
\* the send raises in the handler that called it
Send(s, text, seq) ==
    IF s \in blocked
    THEN /\ ws' = [ws EXCEPT ![s] = "sending"]
         /\ frames' = frames
    ELSE IF s \in broken
    THEN Raise(s)
    ELSE /\ frames' = [frames EXCEPT ![s] = Append(@, [text |-> text, seq |-> seq])]
         /\ ws' = ws

\* a group_discard that takes a member out and puts a channel that is none in
group_discard_toggle(g, s) == IF s \in g THEN g \ {s} ELSE g \cup {s}

\* channel_layer.group_discard(group_name, channel_name) (line 108): the channel
\* is out of the group afterwards; no error when it was not in it
group_discard(g, s) == g \ {s}

\* connect(self), up to the first await: group_add (lines 89-92)
connect_group_add(s) ==
    /\ ws[s] = "new"
    /\ group' = group \cup {s}
    /\ ws' = [ws EXCEPT ![s] = "joining"]
    /\ UNCHANGED <<chan, frames, blocked, broken, leaves, reqs, detected_topics,
                   arrivals>>
    /\ UNCHANGED brokerVars
    /\ UNCHANGED producerVars

\* connect(self), the rest: accept (line 95)
connect_accept(s) ==
    /\ ws[s] = "joining"
    /\ ws' = [ws EXCEPT ![s] = "open"]
    /\ UNCHANGED <<group, chan, frames, blocked, broken, leaves, reqs,
                   detected_topics, arrivals>>
    /\ UNCHANGED brokerVars
    /\ UNCHANGED producerVars

connect(s) == connect_group_add(s) \/ connect_accept(s)

\* a disconnect that leaves out the group_discard of line 108
disconnectKeepsMember(s) ==
    /\ ws[s] = "open"
    /\ group' = group
    /\ ws' = [ws EXCEPT ![s] = "closed"]
    /\ leaves' = [leaves EXCEPT ![s] = @ + 1]
    /\ UNCHANGED <<chan, frames, blocked, broken, reqs, detected_topics, arrivals>>
    /\ UNCHANGED brokerVars
    /\ UNCHANGED producerVars

\* disconnect(self, close_code) (lines 105-112): dispatched when the socket has
\* closed and no other handler of the session is running; the consumer stops.
disconnect(s) ==
    /\ ws[s] = "open"
    /\ group' = group_discard(group, s)
    /\ ws' = [ws EXCEPT ![s] = "closed"]
    /\ leaves' = [leaves EXCEPT ![s] = @ + 1]
    /\ UNCHANGED <<chan, frames, blocked, broken, reqs, detected_topics, arrivals>>
    /\ UNCHANGED brokerVars
    /\ UNCHANGED producerVars

\* the handler run again for a session whose disconnect has run: group_discard
\* once more (line 108); the handler touches nothing else
disconnect_again(s) ==
    /\ ws[s] = "closed"
    /\ leaves[s] < MaxLeaves
    /\ group' = group_discard(group, s)
    /\ leaves' = [leaves EXCEPT ![s] = @ + 1]
    /\ UNCHANGED <<ws, chan, frames, blocked, broken, reqs, detected_topics,
                   arrivals>>
    /\ UNCHANGED brokerVars
    /\ UNCHANGED producerVars

\* the text frames a viewer sends: list_topics, another action, no JSON, no object
ViewerTexts ==
    { JsonDumps(PyDict(<< <<"action", PyStr(<<"list_topics">>)>> >>)),
      JsonDumps(PyDict(<< <<"action", PyStr(<<"reset">>)>> >>)),
      <<Punct("{"), TokJunk("not json")>>,
      JsonDumps(PyList(<<PyInt(1)>>)) }

\* a receive that answers list_topics to every open session
receiveBroadcast(s, text) ==
    /\ ws[s] = "open"
    /\ reqs < MaxReqs
    /\ reqs' = reqs + 1
    /\ LET r == JsonLoads(text) IN
       IF ~r.ok \/ ~IsDict(r.val)
       THEN Raise(s)
       ELSE IF DictGet(r.val, "action", PyNone) = PyStr(<<"list_topics">>)
            THEN /\ frames' = [t \in Sessions |->
                                 IF ws[t] = "open"
                                 THEN Append(frames[t],
                                             [text |-> TopicsFrame(detected_topics),
                                              seq |-> 0])
                                 ELSE frames[t]]
                 /\ ws' = ws
            ELSE UNCHANGED <<ws, frames>>
    /\ UNCHANGED <<group, chan, blocked, broken, leaves, detected_topics, arrivals>>
    /\ UNCHANGED brokerVars
    /\ UNCHANGED producerVars

\* receive(self, text_data) (lines 118-136)
receive(s, text) ==
    /\ ws[s] = "open"
    /\ reqs < MaxReqs
    /\ reqs' = reqs + 1
    /\ LET r == JsonLoads(text) IN
       IF ~r.ok \/ ~IsDict(r.val)
       THEN Raise(s)
       ELSE IF DictGet(r.val, "action", PyNone) = PyStr(<<"list_topics">>)
            THEN Send(s, TopicsFrame(detected_topics), 0)
            ELSE UNCHANGED <<ws, frames>>
    /\ UNCHANGED <<group, chan, blocked, broken, leaves, detected_topics, arrivals>>
    /\ UNCHANGED brokerVars
    /\ UNCHANGED producerVars

\* mqtt_message(self, event) (lines 142-200), dispatched for the first event of
\* the session's channel when no other handler of the session is running
mqtt_message(s) ==
    /\ ws[s] = "open"
    /\ chan[s] # <<>>
    /\ chan' = [chan EXCEPT ![s] = Tail(@)]
    /\ LET ev == Head(chan[s])
           res == MqttMessageResult[[topic |-> ev.topic, payload |-> ev.payload]]
       IN  IF res.raises THEN Raise(s) ELSE Send(s, res.text, ev.seq)
    /\ UNCHANGED <<group, blocked, broken, leaves, reqs, detected_topics, arrivals>>
    /\ UNCHANGED brokerVars
    /\ UNCHANGED producerVars

(***************************************************************************)
(* Specifications.                                                         *)
(***************************************************************************)
\* the process has started; AppConfig.ready has not run, no viewer has connected
Init ==
    /\ mqtt_client_instance = 0
    /\ client = [c \in Clients |-> NoClient]
    /\ detected_topics = {}
    /\ published = <<>>
    /\ cmds = <<>>
    /\ responses = <<>>
    /\ arrivals = <<>>
    /\ ws = [s \in Sessions |-> "new"]
    /\ group = {}
    /\ chan = [s \in Sessions |-> <<>>]
    /\ frames = [s \in Sessions |-> <<>>]
    /\ blocked = {}
    /\ broken = {}
    /\ leaves = [s \in Sessions |-> 0]
    /\ reqs = 0
    /\ produced = <<>>

\* the broker client and the command API
Next ==
    \/ \E ok \in BOOLEAN : start_mqtt_client(ok)
    \/ \E c \in Clients, rc \in {0, 5} : on_connect(c, rc)
    \/ \E c \in Clients : ConnectionLost(c)
    \/ \E c \in Clients : Reconnect(c)
    \/ \E packet \in DirectPackets : publish_command(packet)
    \/ \E packet \in RequestData : enviar_comando(packet)

Spec == Init /\ [][Next]_vars

\* the first client, connected and subscribed by on_connect(rc = 0)
ConnectedClient ==
    [NoClient EXCEPT !.state = "connected", !.loop = TRUE, !.subs = OnConnectSubs(0)]

\* start_mqtt_client has run once and its client is connected; no viewer yet
InitHub ==
    /\ mqtt_client_instance = 1
    /\ client = [c \in Clients |-> IF c = 1 THEN ConnectedClient ELSE NoClient]
    /\ detected_topics = {}
    /\ published = <<>>
    /\ cmds = <<>>
    /\ responses = <<>>
    /\ arrivals = <<>>
    /\ ws = [s \in Sessions |-> "new"]
    /\ group = {}
    /\ chan = [s \in Sessions |-> <<>>]
    /\ frames = [s \in Sessions |-> <<>>]
    /\ blocked = {}
    /\ broken = {}
    /\ leaves = [s \in Sessions |-> 0]
    /\ reqs = 0
    /\ produced = <<>>

\* the viewers that connect in SpecHub
HubSessions == {"A", "B"}

\* the fan-out: broker messages, and viewers that connect, ask and leave
NextHub ==
    \/ \E c \in Clients, msg \in BrokerMessages : on_message(c, msg.topic, msg.payload)
    \/ \E s \in HubSessions : connect(s)
    \/ \E s \in HubSessions : disconnect(s)
    \/ \E s \in HubSessions, text \in ViewerTexts : receive(s, text)
    \/ \E s \in HubSessions : mqtt_message(s)

SpecHub == InitHub /\ [][NextHub]_vars

\* the sessions of HubSessions have connected, and on_message has forwarded
\* one message of TranslateMessages to them
InitTranslate ==
    \E msg \in TranslateMessages :
       /\ mqtt_client_instance = 1
       /\ client = [c \in Clients |-> IF c = 1 THEN ConnectedClient ELSE NoClient]
       /\ detected_topics = {msg.topic}
       /\ published = <<>>
       /\ cmds = <<>>
       /\ responses = <<>>
       /\ arrivals = << [topic |-> msg.topic, payload |-> msg.payload,
                          forwarded |-> TRUE, members |-> HubSessions,
                          error |-> "none"] >>
       /\ ws = [s \in Sessions |-> IF s \in HubSessions THEN "open" ELSE "new"]
       /\ group = HubSessions
       /\ chan = [s \in Sessions |->
                     IF s \in HubSessions
                     THEN << [type |-> "mqtt_message", topic |-> msg.topic,
                              payload |-> msg.payload.text, seq |-> 1] >>
                     ELSE <<>>]
       /\ frames = [s \in Sessions |-> <<>>]
       /\ blocked = {}
       /\ broken = {}
       /\ leaves = [s \in Sessions |-> 0]
       /\ reqs = 0
       /\ produced = <<>>

\* the translation: each session handles the event, or leaves
NextTranslate ==
    \/ \E s \in HubSessions : mqtt_message(s)
    \/ \E s \in HubSessions : disconnect(s)

SpecTranslate == InitTranslate /\ [][NextTranslate]_vars

\* the client is connected and the sessions of HubSessions have connected
InitViewers ==
    /\ mqtt_client_instance = 1
    /\ client = [c \in Clients |-> IF c = 1 THEN ConnectedClient ELSE NoClient]
    /\ detected_topics = {}
    /\ published = <<>>
    /\ cmds = <<>>
    /\ responses = <<>>
    /\ arrivals = <<>>
    /\ ws = [s \in Sessions |-> IF s \in HubSessions THEN "open" ELSE "new"]
    /\ group = HubSessions
    /\ chan = [s \in Sessions |-> <<>>]
    /\ frames = [s \in Sessions |-> <<>>]
    /\ blocked = {}
    /\ broken = {}
    /\ leaves = [s \in Sessions |-> 0]
    /\ reqs = 0
    /\ produced = <<>>

\* packets of the producer, with a cks that verifies or does not, reach the
\* bridge and its viewers
NextChecksum ==
    \/ \E c \in Clients, msg \in ChecksumMessages : on_message(c, msg.topic, msg.payload)
    \/ \E s \in HubSessions : mqtt_message(s)
    \/ \E s \in HubSessions : disconnect(s)

SpecChecksum == InitViewers /\ [][NextChecksum]_vars

\* the messages of the receive loop: a telemetry packet, and bytes that are
\* no UTF-8
LoopMessages ==
    { [topic |-> TELEMETRY_TOPIC, payload |-> Bytes(JsonDumps(TelemetryPacket))],
      [topic |-> <<"mocap", "1">>, payload |-> NotUtf8] }

\* the receive loop: messages that are processed, that fail to decode, that
\* fail to be forwarded; the viewers handle what reaches them
NextLoop ==
    \/ \E c \in Clients, msg \in LoopMessages : on_message(c, msg.topic, msg.payload)
    \/ \E c \in Clients, msg \in LoopMessages :
          on_message_send_fails(c, msg.topic, msg.payload)
    \/ \E s \in HubSessions : mqtt_message(s)
    \/ \E s \in HubSessions : disconnect(s)

SpecLoop == InitViewers /\ [][NextLoop]_vars

\* what the broker has for the bridge: the messages of other publishers, and
\* the messages the bridge itself has published
BrokerTraffic ==
    LoopMessages
    \cup {[topic |-> published[i].topic, payload |-> Bytes(published[i].payload)] :
             i \in 1..Len(published)}

\* commands go out while messages come in: the broker routes to the bridge
\* whatever matches its subscriptions
NextEcho ==
    \/ \E packet \in DirectPackets : publish_command(packet)
    \/ \E packet \in RequestData : enviar_comando(packet)
    \/ \E c \in Clients, msg \in BrokerTraffic : on_message(c, msg.topic, msg.payload)
    \/ \E s \in HubSessions : mqtt_message(s)

SpecEcho == InitViewers /\ [][NextEcho]_vars

\* the producer: the motion capture reports rigid bodies
NextProducer ==
    \E id \in BodyIds, position \in Positions, rotation \in Rotations, now \in Clock :
       on_rigid_body(id, position, rotation, now)

SpecProducer == Init /\ [][NextProducer]_vars

\* sessions A, B and C have connected; the transport of B takes no more frames
InitIso ==
    /\ mqtt_client_instance = 1
    /\ client = [c \in Clients |-> IF c = 1 THEN ConnectedClient ELSE NoClient]
    /\ detected_topics = {}
    /\ published = <<>>
    /\ cmds = <<>>
    /\ responses = <<>>
    /\ arrivals = <<>>
    /\ ws = [s \in Sessions |-> "open"]
    /\ group = Sessions
    /\ chan = [s \in Sessions |-> <<>>]
    /\ frames = [s \in Sessions |-> <<>>]
    /\ blocked = {"B"}
    /\ broken = {}
    /\ leaves = [s \in Sessions |-> 0]
    /\ reqs = 0
    /\ produced = <<>>

NextIso ==
    \/ \E c \in Clients, msg \in BrokerMessages : on_message(c, msg.topic, msg.payload)
    \/ \E s \in Sessions : disconnect(s)
    \/ \E s \in Sessions : mqtt_message(s)

\* the event loop runs the handler of a pending event of a session that is idle
SpecIso ==
    InitIso /\ [][NextIso]_vars /\ \A s \in Sessions : WF_vars(mqtt_message(s))

\* the broker client with its losses and reconnects, broker messages, and one
\* viewer that connects, asks and leaves
NextRegistry ==
    \/ \E c \in Clients, msg \in BrokerMessages : on_message(c, msg.topic, msg.payload)
    \/ \E c \in Clients, rc \in {0, 5} : on_connect(c, rc)
    \/ \E c \in Clients : ConnectionLost(c)
    \/ \E c \in Clients : Reconnect(c)
    \/ connect("A")
    \/ disconnect("A")
    \/ \E text \in ViewerTexts : receive("A", text)
    \/ mqtt_message("A")

SpecRegistry == InitHub /\ [][NextRegistry]_vars

\* topics the broker routes to the client: they match "mocap/#" or "pololu01/tel"
ReceivableTopics ==
    { <<"mocap">>, <<"mocap", "1">>, <<"mocap", "10">>, <<"mocap", "2">>,
      TELEMETRY_TOPIC }

\* the client is connected and the registry holds the topics of the messages
\* received so far, any of the receivable ones; no viewer has connected
InitTopics ==
    /\ mqtt_client_instance = 1
    /\ client = [c \in Clients |-> IF c = 1 THEN ConnectedClient ELSE NoClient]
    /\ detected_topics \in SUBSET ReceivableTopics
    /\ published = <<>>
    /\ cmds = <<>>
    /\ responses = <<>>
    /\ arrivals = <<>>
    /\ ws = [s \in Sessions |-> "new"]
    /\ group = {}
    /\ chan = [s \in Sessions |-> <<>>]
    /\ frames = [s \in Sessions |-> <<>>]
    /\ blocked = {}
    /\ broken = {}
    /\ leaves = [s \in Sessions |-> 0]
    /\ reqs = 0
    /\ produced = <<>>

\* viewers connect, ask and leave
NextTopics ==
    \/ \E s \in HubSessions : connect(s)
    \/ \E s \in HubSessions : disconnect(s)
    \/ \E s \in HubSessions, text \in ViewerTexts : receive(s, text)

SpecTopics == InitTopics /\ [][NextTopics]_vars

\* the telemetry packet on "pololu01/tel"
TelemetryMessages == {m \in BrokerMessages : m.topic = TELEMETRY_TOPIC}

\* viewers connect and leave, and the disconnect handler of a session that has
\* left runs again, while telemetry arrives
NextLeave ==
    \/ \E c \in Clients, msg \in TelemetryMessages :
          on_message(c, msg.topic, msg.payload)
    \/ \E s \in Sessions : connect(s)
    \/ \E s \in Sessions : disconnect(s)
    \/ \E s \in Sessions : disconnect_again(s)
    \/ \E s \in Sessions : mqtt_message(s)

SpecLeave == InitHub /\ [][NextLeave]_vars

\* sessions A, B and C have connected; every write to the transport of B fails
InitFail ==
    /\ mqtt_client_instance = 1
    /\ client = [c \in Clients |-> IF c = 1 THEN ConnectedClient ELSE NoClient]
    /\ detected_topics = {}
    /\ published = <<>>
    /\ cmds = <<>>
    /\ responses = <<>>
    /\ arrivals = <<>>
    /\ ws = [s \in Sessions |-> "open"]
    /\ group = Sessions
    /\ chan = [s \in Sessions |-> <<>>]
    /\ frames = [s \in Sessions |-> <<>>]
    /\ blocked = {}
    /\ broken = {"B"}
    /\ leaves = [s \in Sessions |-> 0]
    /\ reqs = 0
    /\ produced = <<>>

NextFail ==
    \/ \E c \in Clients, msg \in TelemetryMessages :
          on_message(c, msg.topic, msg.payload)
    \/ \E s \in Sessions : disconnect(s)
    \/ \E s \in Sessions : mqtt_message(s)

\* the event loop runs the handler of a pending event of a session that is idle
SpecFail ==
    InitFail /\ [][NextFail]_vars /\ \A s \in Sessions : WF_vars(mqtt_message(s))

(***************************************************************************)
(* Properties.                                                             *)
(***************************************************************************)
\* the number of frames session s was sent for the n-th call of on_message
FramesFor(s, n) == Cardinality({i \in 1..Len(frames[s]) : frames[s][i].seq = n})

\* the event of the n-th call of on_message waits in the channel of s
PendingFor(s, n) == \E i \in 1..Len(chan[s]) : chan[s][i].seq = n

\* the frame f reads {"type": "mqtt_message", "topic": topic, ...}
IsMqttFrameOn(f, topic) ==
    LET r == JsonLoads(f.text) IN
    /\ r.ok
    /\ IsDict(r.val)
    /\ DictGet(r.val, "type", PyNone) = PyStr(<<"mqtt_message">>)
    /\ DictGet(r.val, "topic", PyNone) = PyStr(topic)

\* the messages of the n-th call of publish_command that reached the broker
PublishedFor(n) == Cardinality({i \in 1..Len(published) : published[i].cmd = n})

RECURSIVE WrittenFor(_, _)
\* those written to the sockets of the clients cs and not yet at the broker
WrittenFor(cs, n) ==
    IF cs = {} THEN 0
    ELSE LET c == CHOOSE x \in cs : TRUE IN
         Cardinality({i \in 1..Len(client[c].wire) : client[c].wire[i].cmd = n})
         + WrittenFor(cs \ {c}, n)

\* the request {"action": "list_topics"}
ListTopicsText == JsonDumps(PyDict(<< <<"action", PyStr(<<"list_topics">>)>> >>))

\* the frame f reads {"type": "topics_list", "topics": [...]} and its list holds
\* each of the topics once, in ascending order of their code points
IsTopicsListOf(f, topics) ==
    LET r == JsonLoads(f.text) IN
    /\ r.ok
    /\ IsDict(r.val)
    /\ Len(r.val.items) = 2
    /\ DictGet(r.val, "type", PyNone) = PyStr(<<"topics_list">>)
    /\ LET l == DictGet(r.val, "topics", PyNone) IN
       /\ l.k = "list"
       /\ {l.elems[i] : i \in 1..Len(l.elems)} = {PyStr(t) : t \in topics}
       /\ \A i \in 1..(Len(l.elems) - 1) :
             StrLess(TopicCodes(l.elems[i].s), TopicCodes(l.elems[i + 1].s))

\* C1. Fan-out: for every broker message on_message forwards to the group, every
\* session that was a member then is sent exactly one mqtt_message frame for
\* it, carrying its topic: never two, and one as soon as the event has left the
\* channel of a session that has not disconnected.
C1_FanOutExactlyOnce ==
    \A n \in 1..Len(arrivals) :
       arrivals[n].forwarded =>
          \A s \in arrivals[n].members :
             /\ FramesFor(s, n) <= 1
             /\ \A i \in 1..Len(frames[s]) :
                   frames[s][i].seq = n => IsMqttFrameOn(frames[s][i], arrivals[n].topic)
             /\ (ws[s] \in {"open", "crashed"} /\ ~PendingFor(s, n)) => FramesFor(s, n) = 1

\* C2. Ordering: every session is sent the frames of broker messages in the
\* order on_message received the messages.
C2_Ordering ==
    \A s \in Sessions :
       \A i, j \in 1..Len(frames[s]) :
          (i < j /\ frames[s][i].seq > 0 /\ frames[s][j].seq > 0)
             => frames[s][i].seq < frames[s][j].seq

\* a session was sent the frames of two broker messages
C2_Witness ==
    \E s \in Sessions : FramesFor(s, 1) = 1 /\ FramesFor(s, 2) = 1

\* C3. Membership: the group holds only sessions that have connected and whose
\* consumer has not ended, by a disconnect or by a handler that raised.
C3_GroupOnlyLiveSessions ==
    \A s \in group : ws[s] \in {"joining", "open"}

\* C4. No delivery after teardown: once disconnect has run for a session, no
\* frame is sent to it and no event is put on its channel; the events that
\* waited in its channel are never handled.
C4_NoDeliveryAfterDisconnect ==
    [][\A s \in Sessions :
          ws[s] = "closed" => (frames'[s] = frames[s] /\ chan'[s] = chan[s])]_vars

\* a session disconnected with an event waiting, and a later broker message was
\* forwarded to the group without it
C4_Witness ==
    \E s \in Sessions :
       /\ ws[s] = "closed"
       /\ chan[s] # <<>>
       /\ \E m, n \in 1..Len(arrivals) :
             /\ m < n
             /\ s \in arrivals[m].members
             /\ arrivals[n].forwarded
             /\ s \notin arrivals[n].members

\* C5. Fan-out isolation: a session whose send never returns is eventually
\* removed from the group.
C5_BlockedSessionDropped ==
    (ws["B"] = "sending") ~> ("B" \notin group)

\* why the session stays: a session whose send does not return keeps waiting
\* and keeps its membership under every step, whatever arrives later
BlockedSessionStays ==
    [][\A s \in Sessions :
          ws[s] = "sending" => (ws'[s] = "sending" /\ s \in group')]_vars

\* C6. Containment: a request of session s sends no frame to another session,
\* changes no other session's consumer or membership, and leaves the broker
\* client as it is.
C6_RequestContained ==
    [][\A s \in Sessions, text \in ViewerTexts :
          receive(s, text) =>
             /\ \A t \in Sessions \ {s} :
                   /\ frames'[t] = frames[t]
                   /\ ws'[t] = ws[t]
                   /\ chan'[t] = chan[t]
                   /\ (t \in group') = (t \in group)
             /\ mqtt_client_instance' = mqtt_client_instance
             /\ client' = client
             /\ published' = published]_vars

\* a session was sent a topics_list frame while another was open and was sent
\* nothing
C6_Witness ==
    \E s, t \in Sessions :
       /\ s # t
       /\ \E i \in 1..Len(frames[s]) : frames[s][i].seq = 0
       /\ ws[t] = "open"
       /\ frames[t] = <<>>

\* C7. Resubscription: a connected client is subscribed to "mocap/#" and
\* "pololu01/tel" at QoS 0 and nothing else; a client that is not connected
\* (never connected, refused, or its connection lost) is subscribed to nothing.
C7_Resubscribed ==
    \A c \in Clients :
       client[c].subs =
          IF client[c].state = "connected"
          THEN {[filter |-> <<"mocap", "#">>, qos |-> 0],
                [filter |-> <<"pololu01", "tel">>, qos |-> 0]}
          ELSE {}

\* a client lost its connection and is connected again
C7_Witness ==
    \E c \in Clients : client[c].losses >= 1 /\ client[c].state = "connected"

\* C8. Publish while not connected: a call of publish_command that finds no
\* client, or a client that is not connected, logs an error, writes nothing
\* and nothing of it ever reaches the broker.
C8_PublishWhileNotConnected ==
    \A n \in 1..Len(cmds) :
       cmds[n].conn \in {"none", "disconnected"} =>
          /\ cmds[n].log \in {"error_not_started", "error_publish"}
          /\ ~cmds[n].sent
          /\ PublishedFor(n) = 0
          /\ WrittenFor(Clients, n) = 0

\* C9. Acknowledgment: the command API answers 200 exactly when the publish
\* call of its command wrote the message.
C9_AckReflectsPublish ==
    \A i \in 1..Len(responses) :
       (responses[i].status = 200)
          <=> (responses[i].cmd # 0 /\ cmds[responses[i].cmd].sent)

\* the message m is the command packet on "pololu01/cmd" at QoS 0
IsCommandOf(m, packet) ==
    /\ m.topic = <<"pololu01", "cmd">>
    /\ m.qos = 0
    /\ JsonLoads(m.payload) = [ok |-> TRUE, val |-> packet]

\* the request was refused: an error response, no call of publish_command
Refused(r) == r.status = 400 /\ r.cmd = 0

C11_ListTopics ==
    [][\A s \in Sessions :
          receive(s, ListTopicsText) =>
             /\ Len(frames'[s]) = Len(frames[s]) + 1
             /\ SubSeq(frames'[s], 1, Len(frames[s])) = frames[s]
             /\ IsTopicsListOf(frames'[s][Len(frames'[s])], detected_topics)
             /\ \A t \in Sessions \ {s} : frames'[t] = frames[t]
             /\ detected_topics' = detected_topics
             /\ group' = group]_vars

\* a session was sent the list of a registry of four topics or more, among
\* them "mocap/10" and "mocap/2", while another session was open
C11_Witness ==
    \E s, t \in Sessions :
       /\ s # t
       /\ ws[t] = "open"
       /\ Cardinality(detected_topics) >= 4
       /\ {<<"mocap", "10">>, <<"mocap", "2">>} \subseteq detected_topics
       /\ \E i \in 1..Len(frames[s]) : IsTopicsListOf(frames[s][i], detected_topics)

\* C12. Topic recording: the topic of every message the broker delivered to
\* on_message is in the registry, whatever its payload.
C12_TopicRecorded ==
    \A n \in 1..Len(arrivals) : arrivals[n].topic \in detected_topics

\* C13. Registry growth: the registry holds only topics of messages on_message
\* received, and a topic it holds stays in it under every step.
C13_RegistryGrows ==
    /\ [](detected_topics \subseteq {arrivals[n].topic : n \in 1..Len(arrivals)})
    /\ [][detected_topics \subseteq detected_topics']_vars

\* the registry holds two topics after a connection loss and a reconnect, a
\* list_topics request and the disconnect of the viewer
C13_Witness ==
    /\ Cardinality(detected_topics) = 2
    /\ client[1].losses >= 1
    /\ client[1].state = "connected"
    /\ ws["A"] = "closed"
    /\ \E i \in 1..Len(frames["A"]) : frames["A"][i].seq = 0

\* C14. Unknown request: a request that is JSON and is not list_topics sends
\* no frame, leaves the session open and joined, and changes neither the
\* registry nor what was published.
C14_UnknownRequestIgnored ==
    [][\A s \in Sessions, text \in ViewerTexts :
          (JsonLoads(text).ok /\ text # ListTopicsText /\ receive(s, text)) =>
             /\ frames' = frames
             /\ ws'[s] = "open"
             /\ s \in group'
             /\ group' = group
             /\ detected_topics' = detected_topics
             /\ published' = published]_vars

\* C15. Malformed request: a request that is no JSON is dropped; the session
\* stays open and joined.
C15_MalformedRequestDropped ==
    [][\A s \in Sessions, text \in ViewerTexts :
          (~JsonLoads(text).ok /\ receive(s, text)) =>
             /\ ws'[s] = "open"
             /\ s \in group'
             /\ frames' = frames]_vars

\* the packet of the mqtt_message frame f
PacketOf(f) == DictGet(JsonLoads(f.text).val, "packet", PyNone)

\* the event mqtt_message handles next for session s has a payload that is no JSON
RawEventAt(s) == chan[s] # <<>> /\ ~JsonLoads(Head(chan[s]).payload).ok

\* C16. Non-JSON payload: the handler does not raise and sends one frame whose
\* packet is {"raw": <the payload text>}, with no other field.
C16_RawPacketOnly ==
    [][\A s \in Sessions :
          (RawEventAt(s) /\ mqtt_message(s)) =>
             /\ ws'[s] = "open"
             /\ Len(frames'[s]) = Len(frames[s]) + 1
             /\ PacketOf(frames'[s][Len(frames'[s])])
                   = PyDict(<< <<"raw", PyText(Head(chan[s]).payload)>> >>)]_vars

\* C16, with the field the timestamp fallback adds. The handler does not raise
\* and sends one frame whose packet is {"raw": <the payload text>,
\* "pts": "None"}: the raw text unchanged, and the pts that lines 178-181 set
\* for a packet without pts.
C16_RawPacketWithPts ==
    [][\A s \in Sessions :
          (RawEventAt(s) /\ mqtt_message(s)) =>
             /\ ws'[s] = "open"
             /\ Len(frames'[s]) = Len(frames[s]) + 1
             /\ SubSeq(frames'[s], 1, Len(frames[s])) = frames[s]
             /\ PacketOf(frames'[s][Len(frames'[s])])
                   = PyDict(<< <<"raw", PyText(Head(chan[s]).payload)>>,
                               <<"pts", PyStr(<<"None">>)>> >>)]_vars

\* a session was sent the frame of a broker message whose payload is no JSON
C16_Witness ==
    \E s \in Sessions : \E i \in 1..Len(frames[s]) :
       /\ frames[s][i].seq > 0
       /\ arrivals[frames[s][i].seq].forwarded
       /\ ~JsonLoads(arrivals[frames[s][i].seq].payload.text).ok

\* C17. Non-UTF-8 payload: a broker message whose payload is no UTF-8 is still
\* forwarded: on_message puts an event for it on the channel of every member
\* of the group.
C17_NonUtf8Forwarded ==
    [][\A c \in Clients, msg \in BrokerMessages :
          (~msg.payload.utf8 /\ on_message(c, msg.topic, msg.payload)) =>
             \A s \in group : Len(chan'[s]) = Len(chan[s]) + 1]_vars

\* C18. Idempotent leave: the disconnect handler takes its session out of the
\* group and no other; run again, or run for a session that is no member, it
\* leaves the group as it is and raises nothing.
C18_IdempotentLeave ==
    [][\A s \in Sessions :
          /\ disconnect(s) => group' = group \ {s}
          /\ disconnect_again(s) => (group' = group /\ ws' = ws)]_vars

\* the disconnect handler of a session ran twice while another session was a
\* member of the group
C18_Witness ==
    \E s, t \in Sessions : s # t /\ leaves[s] = 2 /\ t \in group

\* C19. Write failure: a session whose handler ended in a failed write is
\* eventually taken out of the group.
C19_FailedWriteLeavesGroup ==
    (ws["B"] = "crashed") ~> ("B" \notin group)

\* why the session stays: a session whose handler raised keeps its membership
\* under every step, and no handler of it runs again
CrashedSessionStays ==
    [][\A s \in Sessions :
          (ws[s] = "crashed" /\ s \in group) =>
             (ws'[s] = "crashed" /\ s \in group')]_vars

\* C20. Single client: whatever calls of start_mqtt_client were made, at most
\* one client with a running receive loop exists.
C20_SingleClient ==
    Cardinality({c \in Clients : client[c].loop}) <= 1

\* the packet the n-th broker message carried, as json.loads reads it
ReceivedPacket(n) == JsonLoads(arrivals[n].payload.text).val

\* the frames mqtt_message sent for packets: session and position
PacketFrames ==
    {<<s, i>> \in Sessions \X (1..MaxMsgs) :
        /\ i <= Len(frames[s])
        /\ frames[s][i].seq > 0
        /\ JsonLoads(arrivals[frames[s][i].seq].payload.text).ok
        /\ IsDict(ReceivedPacket(frames[s][i].seq))}

\* the value v is a key of the mapping of the field key
IsKeyOf(key, v) ==
    /\ HasKeyInt(v)
    /\ CASE key = "src" -> InSourceMap(KeyInt(v))
         [] key = "ptp" -> KeyInt(v) \in {0, 1, 2}
         [] key = "pid" -> KeyInt(v) \in {0, 1, 2, 10, 11, 12, 13, 14}

\* the label of the mapping of the field key for the code n
LabelOf(key, n) ==
    CASE key = "src" -> SOURCE_MAP(n)
      [] key = "ptp" -> PACKET_TYPE_MAP(n)
      [] key = "pid" -> PACKET_ID_MAP(n)

\* C21. Label translation: in every packet sent to a viewer, each of src, ptp
\* and pid is the label of the received value when that value is a key of the
\* field's mapping (a key as the dict takes it: 1, 1.0 and true are one key),
\* and is otherwise as received, absent when it was absent; and a packet that
\* is itself a translated packet is sent as it was received.
C21_LabelTranslation ==
    \A sf \in PacketFrames :
       LET f == frames[sf[1]][sf[2]]
           received == ReceivedPacket(f.seq)
           sent == PacketOf(f)
       IN  /\ \A key \in {"src", "ptp", "pid"} :
                IF DictHas(received, key) /\ IsKeyOf(key, DictGet(received, key, PyNone))
                THEN /\ DictHas(sent, key)
                     /\ DictGet(sent, key, PyNone)
                           = LabelOf(key, KeyInt(DictGet(received, key, PyNone)))
                ELSE /\ DictHas(sent, key) <=> DictHas(received, key)
                     /\ DictGet(sent, key, PyNone) = DictGet(received, key, PyNone)
           /\ received \in TranslatedPackets => sent = received

\* a viewer was sent the packet of a message with pid 11, with its label
C21_Witness ==
    \E sf \in PacketFrames :
       LET received == ReceivedPacket(frames[sf[1]][sf[2]].seq) IN
       /\ DictGet(received, "pid", PyNone) = PyInt(11)
       /\ DictGet(PacketOf(frames[sf[1]][sf[2]]), "pid", PyNone) = PyStr(<<"FORWARD">>)

RECURSIVE StrJoin(_)
\* the text of a str kept as its pieces
StrJoin(pieces) == IF pieces = <<>> THEN "" ELSE Head(pieces) \o StrJoin(Tail(pieces))

\* the two-digit numeral of an index below 100
TwoDigitText(n) == Digits[(n \div 10) + 1] \o Digits[(n % 10) + 1]

\* C22. Source-id mapping: for every integer s a message carries as src, the
\* packet sent has ROBOTAT_SERVER for 0, USER_PC for 1, POLOLU_(s-10) for
\* 10..42, CRAZYFLIE_(s-50) for 50..70, MAXARM_(s-80) for 80..100, the index
\* in two digits, and the integer itself for any other s; the producer's
\* Source enumeration has these values and no other, and names each of them
\* as the consumer labels it.
C22_SourceMapping ==
    /\ DOMAIN Source = {0, 1} \cup (10..42) \cup (50..70) \cup (80..100)
    /\ \A sf \in PacketFrames :
          LET f == frames[sf[1]][sf[2]]
              v == DictGet(ReceivedPacket(f.seq), "src", PyNone)
              sent == DictGet(PacketOf(f), "src", PyNone)
          IN  (v.k = "int" /\ "n" \in DOMAIN v) =>
                 IF v.n \in DOMAIN Source
                 THEN /\ sent.k = "str"
                      /\ StrJoin(sent.s) = Source[v.n]
                      /\ StrJoin(sent.s) =
                            CASE v.n = 0 -> "ROBOTAT_SERVER"
                              [] v.n = 1 -> "USER_PC"
                              [] v.n \in 10..42 -> "POLOLU_" \o TwoDigitText(v.n - 10)
                              [] v.n \in 50..70 -> "CRAZYFLIE_" \o TwoDigitText(v.n - 50)
                              [] v.n \in 80..100 -> "MAXARM_" \o TwoDigitText(v.n - 80)
                 ELSE sent = v

\* a viewer was sent the packet of a message with src 42, labelled POLOLU_32
C22_Witness ==
    \E sf \in PacketFrames :
       /\ DictGet(ReceivedPacket(frames[sf[1]][sf[2]].seq), "src", PyNone) = PyInt(42)
       /\ DictGet(PacketOf(frames[sf[1]][sf[2]]), "src", PyNone)
             = PyStr(<<"POLOLU_", "3", "2">>)

\* the value v is a str of more than 12 characters
IsLongStr(v) == v.k = "str" /\ "s" \in DOMAIN v /\ Len(v.s) > 12

\* C23. Checksum truncation: in every packet sent to a viewer, a cks that was
\* received as a string of more than 12 characters is 13 characters: its first
\* 8, an ellipsis, its last 4; any other cks (a string of 12 characters or
\* less, a value that is no string, none) is as received.
C23_ChecksumTruncation ==
    \A sf \in PacketFrames :
       LET f == frames[sf[1]][sf[2]]
           received == ReceivedPacket(f.seq)
           cks == DictGet(received, "cks", PyNone)
           sent == DictGet(PacketOf(f), "cks", PyNone)
       IN  IF DictHas(received, "cks") /\ IsLongStr(cks)
           THEN /\ sent.k = "str"
                /\ Len(sent.s) = 13
                /\ \A i \in 1..8 : sent.s[i] = cks.s[i]
                /\ sent.s[9] = Ellipsis
                /\ \A j \in 1..4 : sent.s[9 + j] = cks.s[Len(cks.s) - 4 + j]
           ELSE /\ DictHas(PacketOf(f), "cks") <=> DictHas(received, "cks")
                /\ sent = cks

\* a viewer was sent the packet of a message whose cks has MaxCks characters, and
\* the cks sent has 13
C23_Witness ==
    \E sf \in PacketFrames :
       LET cks == DictGet(ReceivedPacket(frames[sf[1]][sf[2]].seq), "cks", PyNone) IN
       /\ IsLongStr(cks)
       /\ Len(cks.s) = MaxCks
       /\ Len(DictGet(PacketOf(frames[sf[1]][sf[2]]), "cks", PyNone).s) = 13

\* the str the claim takes for the string representation of a value
Representation(v) ==
    CASE v.k = "str" -> v
      [] v.k = "none" -> PyStr(<<"None">>)
      [] OTHER -> [k |-> "str", repr |-> v]

\* the session s has handled the event of the first message without raising
HandledBy(s) == ws[s] \in {"open", "closed"} /\ chan[s] = <<>> /\ arrivals # <<>>

\* a field of the packet that "in" cannot hash
UnhashableField(packet) ==
    \E key \in {"src", "ptp", "pid"} : ~Hashable(DictGet(packet, key, PyNone))

KnownDates ==
    { <<PyInt(0), [year |-> 1970, month |-> 1, day |-> 1,
                   hour |-> 0, minute |-> 0, second |-> 0]>>,
      <<PyInt(1700000000), [year |-> 2023, month |-> 11, day |-> 14,
                            hour |-> 22, minute |-> 13, second |-> 20]>>,
      <<PyFloat(1700000000, 500000), [year |-> 2023, month |-> 11, day |-> 14,
                                      hour |-> 22, minute |-> 13, second |-> 20]>>,
      <<PyLong(2932896, 86399), [year |-> 9999, month |-> 12, day |-> 31,
                                 hour |-> 23, minute |-> 59, second |-> 59]>>,
      <<PyBool(TRUE), [year |-> 1970, month |-> 1, day |-> 1,
                       hour |-> 0, minute |-> 0, second |-> 1]>> }

Verifies(P) == DictHas(P, "cks") /\ _calculate_checksum(P) = DictGet(P, "cks", PyNone)

\* the packets that differ from P in the value of one field other than cks
Mutations(P) ==
    {DictSet(P, key, v) :
        key \in {P.items[i][1] : i \in 1..Len(P.items)} \ {"cks"},
        v \in {PyInt(7), PyFloat(1700000000, 500001), PyNone, PyStr(<<"x">>)}} \ {P}

SameButCks(P, Q) == IsDict(P) /\ IsDict(Q) /\ WithoutCks(P) = WithoutCks(Q)

\* C26. Checksum not enforced: every broker message is recorded and forwarded
\* to the members, and one frame for it is sent to every member that has
\* handled it, whether or not its cks verifies; no session fails on it; and
\* for two messages that differ only in cks, each session is sent two frames
\* with the same topic and with packets that differ only in cks.
C26_ChecksumNotEnforced ==
    /\ \A s \in Sessions : ws[s] # "crashed"
    /\ \A n \in 1..Len(arrivals) :
          /\ arrivals[n].forwarded
          /\ arrivals[n].topic \in detected_topics
          /\ \A s \in arrivals[n].members :
                IF PendingFor(s, n) THEN FramesFor(s, n) = 0
                ELSE ws[s] = "open" => FramesFor(s, n) = 1
    /\ \A sf \in PacketFrames, sg \in PacketFrames :
          LET f == frames[sf[1]][sf[2]]
              g == frames[sg[1]][sg[2]]
          IN  (sf[1] = sg[1] /\ SameButCks(ReceivedPacket(f.seq), ReceivedPacket(g.seq)))
                 => /\ SameButCks(PacketOf(f), PacketOf(g))
                    /\ \E topic \in {arrivals[f.seq].topic} :
                          IsMqttFrameOn(f, topic) /\ IsMqttFrameOn(g, topic)

\* a session was sent the frames of two messages with the same packet, one
\* with a cks that verifies and one with a cks that does not
C26_Witness ==
    \E sf \in PacketFrames, sg \in PacketFrames :
       LET P == ReceivedPacket(frames[sf[1]][sf[2]].seq)
           Q == ReceivedPacket(frames[sg[1]][sg[2]].seq)
       IN  /\ sf[1] = sg[1]
           /\ SameButCks(P, Q)
           /\ Verifies(P)
           /\ ~Verifies(Q)

\* the event mqtt_message handles next for session s has a payload that is
\* JSON and no object
NonObjectEventAt(s) ==
    /\ chan[s] # <<>>
    /\ JsonLoads(Head(chan[s]).payload).ok
    /\ ~IsDict(JsonLoads(Head(chan[s]).payload).val)

\* C27. JSON payload that is no object: for a broker payload that is valid
\* JSON and no mapping, the mqtt_message handler of a session does not raise:
\* it sends a frame for the message and the session stays connected and
\* joined.
C27_NonObjectPayloadHandled ==
    [][\A s \in Sessions :
          (NonObjectEventAt(s) /\ mqtt_message(s)) =>
             /\ ws'[s] = "open"
             /\ Len(frames'[s]) = Len(frames[s]) + 1
             /\ (s \in group') = (s \in group)]_vars

\* an earlier call of on_message failed
FailedBefore == \E k \in 1..Len(arrivals) : arrivals[k].error # "none"

\* C28. Receive loop: a failure in on_message (the payload cannot be decoded,
\* the forwarding raises) is caught there. The client stays connected and
\* subscribed, so that the broker still routes every message to it; and every
\* later message that is processed without failure is recorded and put on the
\* channel of every session in the group.
C28_LoopSurvives ==
    /\ [](/\ client[1] = ConnectedClient
          /\ \A msg \in LoopMessages : Routed(1, msg.topic))
    /\ [][(FailedBefore /\ Len(arrivals') = Len(arrivals) + 1
            /\ arrivals'[Len(arrivals')].error = "none") =>
              LET n == Len(arrivals')
                  a == arrivals'[n]
              IN  /\ a.forwarded
                  /\ a.topic \in detected_topics'
                  /\ a.members = group
                  /\ \A s \in group :
                        chan'[s] = Append(chan[s], [type |-> "mqtt_message",
                                                    topic |-> a.topic,
                                                    payload |-> a.payload.text,
                                                    seq |-> n])]_vars

\* after a message that could not be decoded, a session was sent the frame of
\* a later message
C28_Witness ==
    \E s \in Sessions : \E i \in 1..Len(frames[s]) :
       /\ frames[s][i].seq > 1
       /\ arrivals[1].error = "decode"
       /\ arrivals[frames[s][i].seq].error = "none"
       /\ IsMqttFrameOn(frames[s][i], arrivals[frames[s][i].seq].topic)

\* the frames sent for broker messages: session and position
MessageFrames ==
    {<<s, i>> \in Sessions \X (1..MaxMsgs) : i <= Len(frames[s]) /\ frames[s][i].seq > 0}

C30_NoCommandEcho ==
    /\ \A c \in Clients :
          client[c].state = "connected" =>
             {sub.filter : sub \in client[c].subs}
                = {<<"mocap", "#">>, <<"pololu01", "tel">>}
    /\ \A i \in 1..Len(published) : published[i].topic = <<"pololu01", "cmd">>
    /\ \A n \in 1..Len(arrivals) :
          /\ arrivals[n].topic # <<"pololu01", "cmd">>
          /\ \A i \in 1..Len(published) :
                ~(/\ arrivals[n].topic = published[i].topic
                  /\ arrivals[n].payload = Bytes(published[i].payload))
    /\ <<"pololu01", "cmd">> \notin detected_topics
    /\ \A sf \in MessageFrames :
          ~IsMqttFrameOn(frames[sf[1]][sf[2]], <<"pololu01", "cmd">>)

\* a command has reached the broker, and after it a message has come in and
\* its frame was sent to a viewer
C30_Witness ==
    /\ published # <<>>
    /\ \E sf \in MessageFrames : arrivals[frames[sf[1]][sf[2]].seq].forwarded

=============================================================================
